---- MODULE Spec2Model ----
(***************************************************************************)
(* WebDriverPool (src/index.js, lines 48-412): a pool of webdriver         *)
(* sessions with a waiter queue, a periodic health sweep and a renewal     *)
(* path for crashed sessions.                                              *)
(*                                                                         *)
(* The pool runs on one JavaScript event loop.  A step of the model is     *)
(* either one synchronous call of a public method, or the settling of one  *)
(* asynchronous session command (getTitle, quit, the build of a session)   *)
(* together with the promise callbacks the code chained on it.             *)
(***************************************************************************)
EXTENDS Naturals, Sequences, FiniteSets, Bags

\* ------------------------------------------------------------------ bounds
MaxCount    == 2   \* settings.count is drawn from 1..MaxCount
MaxSessions == 3   \* session identities 1..MaxSessions may be built
MaxRequests == 3   \* getDriver calls
MaxSweeps   == 1   \* timer ticks
MaxTicks    == 2   \* timer ticks where sweeps may follow one another
MaxDestroys == 2   \* destroy calls
MaxTasks    == 2   \* session commands in flight at once

Sessions == 1..MaxSessions
Requests == 1..MaxRequests
SweepIds == 1..MaxSweeps
TickIds == 1..MaxTicks
AllSweepIds == SweepIds \cup TickIds
DestroyIds == 1..MaxDestroys

VARIABLES
  count,             \* settings.count
  browser,           \* settings.browser
  drivers,           \* this.drivers          (array of sessions)
  availableDrivers,  \* this.availableDrivers (array of sessions)
  busyDrivers,       \* this.busyDrivers      (array of sessions)
  getQueue,          \* this.getQueue         (array of deferreds = requests)
  healthInterval,    \* TRUE while the setInterval timer is armed
  readyPromise,      \* "pending" | "resolved" | "rejected"
  tasks,             \* bag of session commands in flight
  nextId,            \* next unused session identity
  fate,              \* per session: ok | crashed | ended (quit or killed)
  reqState,          \* per getDriver call: idle | pending | held | done
  reqDriver,         \* per getDriver call: the session its promise resolved with
  reqMode,           \* per getDriver call: none | direct | queued, then handed | replaced
  reqAfterDestroy,   \* getDriver calls issued after a destroy() had completed
  sweepState,        \* per sweep: idle | running | health
  destroyState,      \* per destroy call: idle | running | resolved | rejected | threw
  thrown,            \* the error the step just taken threw, and for which session
  emitted            \* what the step just taken emitted: the events 'warn' and
                     \* 'health', and 'kill' for a SIGKILL sent (line 64)

vars == <<count, browser, drivers, availableDrivers, busyDrivers, getQueue,
          healthInterval, readyPromise, tasks, nextId, fate, reqState,
          reqDriver, reqMode, reqAfterDestroy, sweepState, destroyState, thrown,
          emitted>>

poolVars == <<drivers, availableDrivers, busyDrivers, getQueue>>

\* ----------------------------------------------------------------- helpers
\* _.contains(array, x)
Contains(s, x) == \E i \in DOMAIN s : s[i] = x

\* _.remove(array, x): drops every element equal to x
Remove(s, x) == SelectSeq(s, LAMBDA y : y # x)

\* array.pop(): the element removed, and what is left
Last(s) == s[Len(s)]
Front(s) == SubSeq(s, 1, Len(s) - 1)

Range(s) == {s[i] : i \in DOMAIN s}
Occurrences(s, x) == Cardinality({i \in DOMAIN s : s[i] = x})

\* A session command in flight and the promise chain hanging on it.
\*   kind   : probe (getTitle) | quit | build
\*   origin : start | return | sweep | user | destroy
\*   d      : the session the command runs on (for a build: the one replaced)
\*   nd     : the identity of the session being built as replacement
\*   id     : the sweep or destroy call the command belongs to
Task(kind, origin, d, nd, id) ==
  [kind |-> kind, origin |-> origin, d |-> d, nd |-> nd, id |-> id]

InFlight == BagToSet(tasks)
OneTask(t) == SetToBag({t})

\* Unsettled commands of one Q.all group other than t
Siblings(t) == {u \in InFlight : u.origin = t.origin /\ u.id = t.id}
OthersPending(t) == CopiesIn(t, tasks) > 1 \/ Siblings(t) # {t}

\* No error: the step just taken was no call, or a call that did not throw
NoThrow == [err |-> "none", d |-> 0]

\* A session whose process is gone answers no command
Dead(d) == fate[d] # "ok"
Ended(d) == [fate EXCEPT ![d] = IF @ = "ok" THEN "ended" ELSE @]

\* A faulty build: no session has a pid
NeverPid == FALSE

\* driver.pid is set by buildDriver for phantomjs only (lines 241-246)
HasPid == browser = "phantomjs"

DestroyCompleted == \E k \in DestroyIds : destroyState[k] = "resolved"

\* ------------------------------------------------- fragments of the methods
\* returnDriver's validation (lines 358-363): which way the call goes
returnDriverCheck(d) ==
  IF Contains(availableDrivers, d) THEN "AlreadyReturned"
  ELSE IF ~Contains(drivers, d) THEN "NotOwned"
  ELSE "probing"

\* this.getQueue.pop() (lines 367, 375): the deferred taken and the rest
PopWaiter(q) == [r |-> Last(q), rest |-> Front(q)]

\* this.availableDrivers.pop() (line 329)
PopAvailable(av) == [d |-> Last(av), rest |-> Front(av)]

\* A faulty hand-over: the session goes to the waiter and is also pushed on
\* availableDrivers
ReturnAliveAlsoAvailable(d) ==
  IF getQueue # << >>
  THEN LET w == PopWaiter(getQueue) IN
       /\ getQueue' = w.rest
       /\ reqState' = [reqState EXCEPT ![w.r] = "held"]
       /\ reqDriver' = [reqDriver EXCEPT ![w.r] = d]
       /\ reqMode' = [reqMode EXCEPT ![w.r] = "handed"]
       /\ availableDrivers' = Append(availableDrivers, d)
       /\ UNCHANGED <<drivers, busyDrivers>>
  ELSE /\ busyDrivers' = Remove(busyDrivers, d)
       /\ availableDrivers' = Append(availableDrivers, d)
       /\ UNCHANGED <<drivers, getQueue, reqState, reqDriver, reqMode>>

\* the probe promise of returnDriver fulfilled with status true (lines 366-373)
ReturnAlive(d) ==
  IF getQueue # << >>
  THEN LET w == PopWaiter(getQueue) IN
       /\ getQueue' = w.rest
       /\ reqState' = [reqState EXCEPT ![w.r] = "held"]
       /\ reqDriver' = [reqDriver EXCEPT ![w.r] = d]
       /\ reqMode' = [reqMode EXCEPT ![w.r] = "handed"]
       /\ UNCHANGED <<drivers, availableDrivers, busyDrivers>>
  ELSE /\ busyDrivers' = Remove(busyDrivers, d)
       /\ availableDrivers' = Append(availableDrivers, d)
       /\ UNCHANGED <<drivers, getQueue, reqState, reqDriver, reqMode>>

\* buildDriver's last callback (lines 249-253) followed, for a renewal started
\* by returnDriver, by the status-false branch of returnDriver (lines 374-379)
Admit(t) ==
  /\ drivers' = Append(drivers, t.nd)
  /\ availableDrivers' = Append(availableDrivers, t.nd)
  /\ UNCHANGED busyDrivers
  /\ IF t.origin = "return" /\ getQueue # << >>
     THEN LET w == PopWaiter(getQueue) IN
          /\ getQueue' = w.rest
          /\ reqState' = [reqState EXCEPT ![w.r] = "held"]
          /\ reqDriver' = [reqDriver EXCEPT ![w.r] = t.nd]
          /\ reqMode' = [reqMode EXCEPT ![w.r] = "replaced"]
     ELSE UNCHANGED <<getQueue, reqState, reqDriver, reqMode>>

\* A faulty renewal: the session is left in drivers
RetireKeepsDriver(d) ==
  /\ availableDrivers' = Remove(availableDrivers, d)
  /\ busyDrivers' = Remove(busyDrivers, d)
  /\ UNCHANGED drivers

\* renewDriver's three _.remove calls (lines 390-392)
Retire(d) ==
  /\ availableDrivers' = Remove(availableDrivers, d)
  /\ drivers' = Remove(drivers, d)
  /\ busyDrivers' = Remove(busyDrivers, d)

\* the sets as destroy's callback leaves them (lines 406-409)
ClearPool ==
  /\ availableDrivers' = << >>
  /\ drivers' = << >>
  /\ busyDrivers' = << >>
  /\ getQueue' = << >>

\* Q.all(...).finally(() => this.emit('health')) (lines 109-112): Q.all settles
\* when its last member fulfils or when its first member rejects
SweepAfter(t, fulfilled) ==
  IF /\ t.origin = "sweep"
     /\ sweepState[t.id] = "running"
     /\ (~fulfilled \/ ~OthersPending(t))
  THEN [sweepState EXCEPT ![t.id] = "health"]
  ELSE sweepState

\* the 'health' event of the finally (line 112), emitted when the sweep settles
HealthIf(after) == IF after # sweepState THEN {"health"} ELSE {}

\* Q.all(_.times(count, buildDriver)).thenResolve(this) (lines 162-163)
ReadyAfter(t, fulfilled) ==
  IF t.origin = "start" /\ readyPromise = "pending"
  THEN IF ~fulfilled THEN "rejected"
       ELSE IF OthersPending(t) THEN "pending" ELSE "resolved"
  ELSE readyPromise

\* ------------------------------------------------------------------- Init
\* The state the constructor (lines 118-147) leaves: empty arrays, the timer
\* armed and count builds in flight (start, lines 154-165).
Init ==
  /\ count \in 1..MaxCount
  /\ browser \in {"phantomjs", "firefox"}
  /\ drivers = << >>
  /\ availableDrivers = << >>
  /\ busyDrivers = << >>
  /\ getQueue = << >>
  /\ healthInterval = TRUE
  /\ readyPromise = "pending"
  /\ tasks = SetToBag({Task("build", "start", 0, n, 0) : n \in 1..count})
  /\ nextId = count + 1
  /\ fate = [d \in Sessions |-> "ok"]
  /\ reqState = [r \in Requests |-> "idle"]
  /\ reqDriver = [r \in Requests |-> 0]
  /\ reqMode = [r \in Requests |-> "none"]
  /\ reqAfterDestroy = {}
  /\ sweepState = [s \in AllSweepIds |-> "idle"]
  /\ destroyState = [k \in DestroyIds |-> "idle"]
  /\ thrown = NoThrow
  /\ emitted = {}

\* ---------------------------------------------------------- public methods
\* getDriver() (lines 325-349), called by a new caller r; calls are numbered
\* in the order they are made
GetDriver(r) ==
  /\ reqState[r] = "idle"
  /\ r > 1 => reqState[r - 1] # "idle"
  /\ IF Len(availableDrivers) > 0
     THEN LET p == PopAvailable(availableDrivers) IN
          /\ availableDrivers' = p.rest
          /\ busyDrivers' = Append(busyDrivers, p.d)
          /\ reqState' = [reqState EXCEPT ![r] = "held"]
          /\ reqDriver' = [reqDriver EXCEPT ![r] = p.d]
          /\ reqMode' = [reqMode EXCEPT ![r] = "direct"]
          /\ UNCHANGED getQueue
     ELSE /\ getQueue' = Append(getQueue, r)
          /\ reqState' = [reqState EXCEPT ![r] = "pending"]
          /\ reqMode' = [reqMode EXCEPT ![r] = "queued"]
          /\ UNCHANGED <<availableDrivers, busyDrivers, reqDriver>>
  /\ reqAfterDestroy' = IF DestroyCompleted THEN reqAfterDestroy \cup {r}
                        ELSE reqAfterDestroy
  /\ thrown' = NoThrow
  /\ emitted' = {}
  /\ UNCHANGED <<count, browser, drivers, healthInterval, readyPromise, tasks,
                 nextId, fate, sweepState, destroyState>>

\* The synchronous part of returnDriver(d) (lines 357-364): it throws, or it
\* starts the probe of checkSingleDriver (line 86)
returnDriver(d) ==
  LET res == returnDriverCheck(d) IN
  /\ res = "probing" => BagCardinality(tasks) < MaxTasks
  /\ tasks' = IF res = "probing"
              THEN tasks (+) OneTask(Task("probe", "return", d, 0, 0))
              ELSE tasks
  /\ thrown' = IF res = "probing" THEN NoThrow ELSE [err |-> res, d |-> d]
  /\ emitted' = {}
  /\ UNCHANGED <<count, browser, drivers, availableDrivers, busyDrivers,
                 getQueue, healthInterval, readyPromise, nextId, fate,
                 sweepState, destroyState>>

\* The caller of request r is done with its session: the model keeps nothing
\* of a finished request
Forget(r) ==
  /\ reqState' = [reqState EXCEPT ![r] = "done"]
  /\ reqDriver' = [reqDriver EXCEPT ![r] = 0]
  /\ reqMode' = [reqMode EXCEPT ![r] = "none"]
  /\ reqAfterDestroy' = reqAfterDestroy \ {r}

\* The caller of request r gives back the session it holds
ReturnDriver(r) ==
  /\ reqState[r] = "held"
  /\ returnDriver(reqDriver[r])
  /\ Forget(r)

\* Somebody calls returnDriver with an arbitrary session, admitted or not
StrayReturn(d) ==
  /\ returnDriver(d)
  /\ UNCHANGED <<reqState, reqDriver, reqMode, reqAfterDestroy>>

\* renewDriver(d) (lines 389-395), called by the holder of d in place of
\* returnDriver: the removals and the call of quit (line 56) are synchronous
RenewDriver(r) ==
  /\ reqState[r] = "held"
  /\ nextId <= MaxSessions
  /\ BagCardinality(tasks) < MaxTasks
  /\ Retire(reqDriver[r])
  /\ tasks' = tasks (+) OneTask(Task("quit", "user", reqDriver[r], nextId, 0))
  /\ nextId' = nextId + 1
  /\ Forget(r)
  /\ thrown' = NoThrow
  /\ emitted' = {}
  /\ UNCHANGED <<count, browser, getQueue, healthInterval, readyPromise, fate,
                 sweepState, destroyState>>

\* One firing of the interval timer: checkDrivers() (lines 108-113) starts a
\* probe of every member of availableDrivers
SweepProbes(s) ==
  [t \in {Task("probe", "sweep", d, 0, s) : d \in Range(availableDrivers)}
     |-> Occurrences(availableDrivers, t.d)]

Tick(s) ==
  /\ healthInterval
  /\ sweepState[s] = "idle"
  /\ s > 1 => sweepState[s - 1] # "idle"
  /\ BagCardinality(tasks) + Len(availableDrivers) <= MaxTasks
  /\ tasks' = tasks (+) SweepProbes(s)
  /\ sweepState' = [sweepState EXCEPT
                      ![s] = IF availableDrivers = << >> THEN "health" ELSE "running"]
  /\ thrown' = NoThrow
  /\ emitted' = IF availableDrivers = << >> THEN {"health"} ELSE {}
  /\ UNCHANGED <<count, browser, drivers, availableDrivers, busyDrivers,
                 getQueue, healthInterval, readyPromise, nextId, fate,
                 reqState, reqDriver, reqMode, reqAfterDestroy, destroyState>>

\* destroy() (lines 402-411): clearInterval, then quit is called on every
\* member of drivers; the callback clearing the sets runs once all quits fulfil
DestroyQuits(k, ds) ==
  [t \in {Task("quit", "destroy", d, 0, k) : d \in Range(ds)}
     |-> Occurrences(ds, t.d)]

Destroy(k) ==
  /\ destroyState[k] = "idle"
  /\ k > 1 => destroyState[k - 1] # "idle"
  /\ BagCardinality(tasks) + Len(drivers) <= MaxTasks
  /\ healthInterval' = FALSE
  /\ tasks' = tasks (+) DestroyQuits(k, drivers)
  /\ IF drivers = << >>
     THEN /\ ClearPool
          /\ destroyState' = [destroyState EXCEPT ![k] = "resolved"]
     ELSE /\ UNCHANGED poolVars
          /\ destroyState' = [destroyState EXCEPT ![k] = "running"]
  /\ thrown' = NoThrow
  /\ emitted' = {}
  /\ UNCHANGED <<count, browser, readyPromise, nextId, fate, reqState,
                 reqDriver, reqMode, reqAfterDestroy, sweepState>>

\* destroy() where the quit of the i-th driver throws synchronously
\* (_.invoke at line 404 is not guarded as fixupSyncThrow guards the others):
\* the quits already called stay in flight, nothing waits for them
DestroyThrow(k) ==
  /\ destroyState[k] = "idle"
  /\ k > 1 => destroyState[k - 1] # "idle"
  /\ BagCardinality(tasks) + Len(drivers) <= MaxTasks
  /\ \E i \in DOMAIN drivers :
        tasks' = tasks (+) DestroyQuits(k, SubSeq(drivers, 1, i - 1))
  /\ healthInterval' = FALSE
  /\ destroyState' = [destroyState EXCEPT ![k] = "threw"]
  /\ thrown' = NoThrow
  /\ emitted' = {}
  /\ UNCHANGED <<count, browser, drivers, availableDrivers, busyDrivers,
                 getQueue, readyPromise, nextId, fate, reqState, reqDriver,
                 reqMode, reqAfterDestroy, sweepState>>

\* ------------------------------------------- settling of session commands
\* getTitle fulfils (lines 86-87); for returnDriver its callback follows
ProbeOk(t) ==
  /\ t \in InFlight
  /\ t.kind = "probe"
  /\ ~Dead(t.d)
  /\ tasks' = tasks (-) OneTask(t)
  /\ IF t.origin = "return"
     THEN ReturnAlive(t.d)
     ELSE UNCHANGED <<poolVars, reqState, reqDriver, reqMode>>
  /\ sweepState' = SweepAfter(t, TRUE)
  /\ thrown' = NoThrow
  /\ emitted' = HealthIf(SweepAfter(t, TRUE))
  /\ UNCHANGED <<count, browser, healthInterval, readyPromise, nextId, fate,
                 reqAfterDestroy, destroyState>>

\* getTitle rejects (lines 87-92): 'warn', then renewDriver(driver) removes the
\* session from the three arrays and calls quit on it
RenewAfterProbe(t) ==
  /\ t \in InFlight
  /\ t.kind = "probe"
  /\ nextId <= MaxSessions
  /\ Retire(t.d)
  /\ tasks' = (tasks (-) OneTask(t)) (+) OneTask(Task("quit", t.origin, t.d, nextId, t.id))
  /\ nextId' = nextId + 1
  /\ thrown' = NoThrow
  /\ emitted' = {"warn"}
  /\ UNCHANGED <<count, browser, getQueue, healthInterval, readyPromise,
                 reqState, reqDriver, reqMode, reqAfterDestroy, sweepState,
                 destroyState>>

\* The probe fails although the session lives (an error of the command), or it
\* fails on a session already known to be gone
ProbeFail(t) ==
  /\ RenewAfterProbe(t)
  /\ UNCHANGED fate

\* The probe fails because the session's process has died out of band
ProbeCrashed(t) ==
  /\ RenewAfterProbe(t)
  /\ fate[t.d] = "ok"
  /\ fate' = [fate EXCEPT ![t.d] = "crashed"]

\* The callback of destroy's Q.all (lines 405-410)
DestroyAfter(t, fulfilled) ==
  IF destroyState[t.id] = "running" /\ fulfilled /\ ~OthersPending(t)
  THEN /\ ClearPool
       /\ destroyState' = [destroyState EXCEPT ![t.id] = "resolved"]
  ELSE /\ UNCHANGED poolVars
       /\ destroyState' = IF destroyState[t.id] = "running" /\ ~fulfilled
                          THEN [destroyState EXCEPT ![t.id] = "rejected"]
                          ELSE destroyState

\* killDriver's quit fulfils (line 56); renewDriver goes on to buildDriver
\* (line 394), destroy counts the session as terminated
QuitOk(t) ==
  /\ t \in InFlight
  /\ t.kind = "quit"
  /\ fate' = Ended(t.d)
  /\ IF t.origin = "destroy"
     THEN /\ tasks' = tasks (-) OneTask(t)
          /\ DestroyAfter(t, TRUE)
     ELSE /\ tasks' = (tasks (-) OneTask(t))
                        (+) OneTask(Task("build", t.origin, t.d, t.nd, t.id))
          /\ UNCHANGED <<poolVars, destroyState>>
  /\ thrown' = NoThrow
  /\ emitted' = {}
  /\ UNCHANGED <<count, browser, healthInterval, readyPromise, nextId,
                 reqState, reqDriver, reqMode, reqAfterDestroy, sweepState>>

\* killDriver's quit rejects (lines 57-74): with a pid the process is killed and
\* the renewal goes on; without one the error is rethrown and the renewal ends.
\* destroy has no handler for a rejected quit.
QuitFail(t) ==
  /\ t \in InFlight
  /\ t.kind = "quit"
  /\ IF t.origin = "destroy"
     THEN /\ tasks' = tasks (-) OneTask(t)
          /\ DestroyAfter(t, FALSE)
          /\ UNCHANGED <<fate, sweepState>>
     ELSE IF HasPid
     THEN /\ tasks' = (tasks (-) OneTask(t))
                        (+) OneTask(Task("build", t.origin, t.d, t.nd, t.id))
          /\ fate' = Ended(t.d)
          /\ UNCHANGED <<poolVars, destroyState, sweepState>>
     ELSE /\ tasks' = tasks (-) OneTask(t)
          /\ sweepState' = SweepAfter(t, FALSE)
          /\ UNCHANGED <<poolVars, destroyState, fate>>
  /\ thrown' = NoThrow
  /\ emitted' = IF t.origin = "destroy" THEN {}
              ELSE IF HasPid THEN {"warn", "kill"}
              ELSE HealthIf(SweepAfter(t, FALSE))
  /\ UNCHANGED <<count, browser, healthInterval, readyPromise, nextId,
                 reqState, reqDriver, reqMode, reqAfterDestroy>>

\* buildDriver's chain fulfils (lines 230-253): the new session is pushed on
\* drivers and availableDrivers and whoever waited for the build goes on
BuildOk(t) ==
  /\ t \in InFlight
  /\ t.kind = "build"
  /\ tasks' = tasks (-) OneTask(t)
  /\ Admit(t)
  /\ sweepState' = SweepAfter(t, TRUE)
  /\ readyPromise' = ReadyAfter(t, TRUE)
  /\ thrown' = NoThrow
  /\ emitted' = (IF t.origin \in {"sweep", "return"} THEN {"warn"} ELSE {})
                 \cup HealthIf(SweepAfter(t, TRUE))
  /\ UNCHANGED <<count, browser, healthInterval, nextId, fate,
                 reqAfterDestroy, destroyState>>

\* buildDriver's chain rejects: nothing is pushed, the rejection propagates
BuildFail(t) ==
  /\ t \in InFlight
  /\ t.kind = "build"
  /\ tasks' = tasks (-) OneTask(t)
  /\ sweepState' = SweepAfter(t, FALSE)
  /\ readyPromise' = ReadyAfter(t, FALSE)
  /\ thrown' = NoThrow
  /\ emitted' = HealthIf(SweepAfter(t, FALSE))
  /\ UNCHANGED <<count, browser, poolVars, healthInterval, nextId, fate,
                 reqState, reqDriver, reqMode, reqAfterDestroy, destroyState>>

AllTasks ==
  [kind : {"probe", "quit", "build"},
   origin : {"start", "return", "sweep", "user", "destroy"},
   d : 0..MaxSessions, nd : 0..MaxSessions,
   id : 0..(MaxSweeps + MaxTicks + MaxDestroys)]

\* ------------------------------------------------------------ specifications
\* The pool in service: callers that use it as documented, the timer, and the
\* session commands settling in any order
Next ==
  \/ \E r \in Requests : GetDriver(r)
  \/ \E r \in Requests : ReturnDriver(r)
  \/ \E r \in Requests : RenewDriver(r)
  \/ \E s \in SweepIds : Tick(s)
  \/ \E t \in InFlight : ProbeOk(t)
  \/ \E t \in InFlight : ProbeFail(t)
  \/ \E t \in InFlight : ProbeCrashed(t)
  \/ \E t \in InFlight : QuitOk(t)
  \/ \E t \in InFlight : QuitFail(t)
  \/ \E t \in InFlight : BuildOk(t)
  \/ \E t \in InFlight : BuildFail(t)

Spec == Init /\ [][Next]_vars

\* Callers that also call returnDriver with sessions they do not (or no
\* longer) hold
MisuseNext ==
  \/ Next
  \/ \E d \in Sessions : StrayReturn(d)

MisuseSpec == Init /\ [][MisuseNext]_vars

\* The pool's whole life: destroy() may be called at any time, and the pool
\* may be used after it
LifeNext ==
  \/ Next
  \/ \E k \in DestroyIds : Destroy(k)
  \/ \E k \in DestroyIds : DestroyThrow(k)

LifeSpec == Init /\ [][LifeNext]_vars

TypeOK ==
  /\ count \in 1..MaxCount
  /\ Range(drivers) \subseteq Sessions
  /\ Range(availableDrivers) \subseteq Sessions
  /\ Range(busyDrivers) \subseteq Sessions
  /\ Range(getQueue) \subseteq Requests
  /\ InFlight \subseteq AllTasks
  /\ nextId \in 1..(MaxSessions + 1)
  /\ fate \in [Sessions -> {"ok", "crashed", "ended"}]
  /\ thrown \in [err : {"none", "AlreadyReturned", "NotOwned"}, d : 0..MaxSessions]
  /\ emitted \subseteq {"warn", "health", "kill"}

\* ------------------------------------------------------------------ claims
Held(r) == reqState[r] = "held"
InPool(d) ==
  Contains(drivers, d) \/ Contains(availableDrivers, d) \/ Contains(busyDrivers, d)

\* C1: no session is held by two owners at once: a session handed to a caller
\* and not yet released is held by no second caller and is not a member of
\* availableDrivers.
C1_SingleOwner ==
  \A r \in Requests :
     Held(r) =>
        /\ ~Contains(availableDrivers, reqDriver[r])
        /\ \A q \in Requests \ {r} : Held(q) => reqDriver[q] # reqDriver[r]

\* C2: waiters are fulfilled in enqueue order: when a queued request has been
\* resolved, no request queued before it is still pending.
C2_FifoOrder ==
  \A a, b \in Requests :
     (a < b /\ Held(b) /\ reqMode[b] \in {"handed", "replaced"})
        => ~(reqState[a] = "pending" /\ reqMode[a] = "queued")

\* A call of returnDriver(d), by the holder of d or by anybody else
Returning(d) ==
  \/ StrayReturn(d)
  \/ \E r \in Requests : reqDriver[r] = d /\ ReturnDriver(r)

\* A release of d has been made before: its probe is still awaited, or it has
\* put d into availableDrivers, or it has handed d to a waiter that holds it
FirstReleasePending(d) == Task("probe", "return", d, 0, 0) \in InFlight
HandedOn(d) ==
  \E r \in Requests : Held(r) /\ reqMode[r] = "handed" /\ reqDriver[r] = d
ReleasedBefore(d) ==
  FirstReleasePending(d) \/ Contains(availableDrivers, d) \/ HandedOn(d)

\* C3: a second returnDriver(s) for a checkout already released
\* fails with 'Driver already returned' and changes no pool state, whether the
\* first release still awaits its probe, has put s into availableDrivers or
\* has handed s to a waiter.
C3_DoubleReleaseFails ==
  [][\A d \in Sessions :
       (StrayReturn(d) /\ ReleasedBefore(d))
          => /\ thrown' = [err |-> "AlreadyReturned", d |-> d]
             /\ UNCHANGED <<poolVars, tasks>>]_vars

\* C4: returnDriver(s) for a session s that is not a member of drivers fails
\* with 'Driver does not belong to pool' before any probe is started and leaves
\* drivers, availableDrivers, busyDrivers and getQueue unchanged.
C4_NotOwned ==
  [][\A d \in Sessions :
       (Returning(d) /\ ~Contains(drivers, d))
          => /\ thrown' = [err |-> "NotOwned", d |-> d]
             /\ UNCHANGED <<poolVars, tasks>>]_vars

\* C5: a request queued by getDriver leaves the pending state only in the
\* step in which a returnDriver call resolves; when the probe of
\* returnDriver(s) succeeds and a waiter is queued, a waiter gets s itself and
\* s is not in availableDrivers before or after the step; when no waiter is
\* queued, s is no longer in busyDrivers and is the session the next getDriver
\* pops from availableDrivers.
C5_HandOff ==
  [][/\ \A r \in Requests :
          (reqState[r] = "pending" /\ reqState'[r] # "pending")
             => \E t \in InFlight :
                   t.origin = "return" /\ (ProbeOk(t) \/ BuildOk(t))
     /\ \A t \in InFlight :
          (t.origin = "return" /\ ProbeOk(t))
             => IF getQueue # << >>
                THEN /\ \E r \in Range(getQueue) :
                          /\ reqState'[r] = "held"
                          /\ reqDriver'[r] = t.d
                     /\ ~Contains(availableDrivers, t.d)
                     /\ ~Contains(availableDrivers', t.d)
                ELSE /\ ~Contains(busyDrivers', t.d)
                     /\ availableDrivers' # << >>
                     /\ PopAvailable(availableDrivers').d = t.d]_vars

\* C5 witness: request 1 took the only session, request 2 queued, and the
\* return of request 1 has handed the same session 1 to request 2.
C5_Witness ==
  /\ count = 1 /\ nextId = 2
  /\ reqState[1] = "done"
  /\ Held(2) /\ reqMode[2] = "handed" /\ reqDriver[2] = 1
  /\ availableDrivers = << >>
  /\ getQueue = << >>

\* C6: when the renewal started by returnDriver(s) after the probe found s
\* crashed has built the replacement, s is in none of drivers,
\* availableDrivers and busyDrivers, and the session the next getDriver pops
\* is not s; a crashed session is in no set at any time.
C6_CrashedReplaced ==
  [][/\ \A t \in InFlight :
          (t.origin = "return" /\ fate[t.d] = "crashed" /\ BuildOk(t))
             => /\ ~InPool(t.d)'
                /\ availableDrivers' # << >>
                /\ PopAvailable(availableDrivers').d # t.d
     /\ \A d \in Sessions : fate'[d] = "crashed" => ~InPool(d)']_vars

\* C6 witness: the only session was checked out, found crashed by the probe of
\* its return, and the replacement 2 has been built; no sweep has run.
C6_Witness ==
  /\ count = 1 /\ fate[1] = "crashed"
  /\ reqState[1] = "done" /\ reqState[2] = "idle"
  /\ sweepState[1] = "idle"
  /\ drivers = <<2>> /\ availableDrivers = <<2>> /\ busyDrivers = << >>
  /\ tasks = EmptyBag

\* C7: when the promise of renewDriver(d) resolves, d is in none of drivers,
\* availableDrivers and busyDrivers, one session that was in no set before has
\* been added to drivers, and the session the next getDriver pops is not d.
C7_RenewReplaces ==
  [][\A t \in InFlight :
       (t.origin = "user" /\ BuildOk(t))
          => /\ ~InPool(t.d)'
             /\ drivers' = Append(drivers, t.nd)
             /\ ~InPool(t.nd)
             /\ PopAvailable(availableDrivers').d # t.d]_vars

\* C8: once a destroy() has completed, every getDriver call is rejected with
\* PoolClosed (it is neither given a session nor queued) and every
\* returnDriver call fails with PoolClosed.
C8_ClosedAfterDestroy ==
  [][DestroyCompleted =>
       /\ \A r \in Requests : GetDriver(r) => reqState'[r] = "rejected"
       /\ \A d \in Sessions : Returning(d) => thrown'.err = "PoolClosed"]_vars

\* C9: in the step in which a destroy() completes, every request still
\* pending in getQueue is rejected.
C9_WaitersRejected ==
  [][\A k \in DestroyIds :
       (destroyState[k] # "resolved" /\ destroyState'[k] = "resolved")
          => \A r \in Range(getQueue) : reqState'[r] = "rejected"]_vars

\* C10: a destroy() called after an earlier destroy() calls quit on no session
\* whose quit from the earlier call is still in flight.
C10_DestroyIdempotent ==
  [][\A k \in DestroyIds :
       (k > 1 /\ Destroy(k))
          => \A d \in Sessions :
               (\E j \in 1..(k - 1) :
                   Task("quit", "destroy", d, 0, j) \in InFlight)
                  => Task("quit", "destroy", d, 0, k) \notin BagToSet(tasks')]_vars

\* Distinct sessions of an array
Distinct(s) == Cardinality(Range(s))

\* C11: in the step in which the ready promise of start() resolves, no
\* getDriver having been called before, drivers and availableDrivers each hold
\* exactly count distinct sessions and busyDrivers is empty.
C11_ReadyMeansBuilt ==
  [][(/\ readyPromise = "pending"
      /\ readyPromise' = "resolved"
      /\ \A r \in Requests : reqState[r] = "idle")
        => /\ Len(drivers') = count /\ Distinct(drivers') = count
           /\ Len(availableDrivers') = count
           /\ Distinct(availableDrivers') = count
           /\ busyDrivers' = << >>]_vars

\* C12: once the ready promise of start() is rejected because an initial
\* build failed, the interval timer is not running and no session is admitted.
C12_FailedStartLeavesNothing ==
  readyPromise = "rejected"
     => /\ ~healthInterval
        /\ drivers = << >> /\ availableDrivers = << >> /\ busyDrivers = << >>

\* The pool in service when every quit and every build succeeds
RenewalNext ==
  \/ \E r \in Requests : GetDriver(r)
  \/ \E r \in Requests : ReturnDriver(r)
  \/ \E r \in Requests : RenewDriver(r)
  \/ \E s \in SweepIds : Tick(s)
  \/ \E t \in InFlight : ProbeOk(t)
  \/ \E t \in InFlight : ProbeFail(t)
  \/ \E t \in InFlight : ProbeCrashed(t)
  \/ \E t \in InFlight : QuitOk(t)
  \/ \E t \in InFlight : BuildOk(t)

RenewalSpec == Init /\ [][RenewalNext]_vars

\* A quit or a build of a renewal (or of start) is in flight in bag b
Renewing(b) == \E u \in BagToSet(b) : u.kind # "probe"

\* C13: when the renewal started by a failed sweep probe has built its
\* replacement, the initial builds being done and no other renewal being under
\* way, drivers holds count sessions again (no quit and no build ever fails).
C13_CountRestored ==
  [][\A t \in InFlight :
       (t.origin = "sweep" /\ BuildOk(t) /\ ~Renewing(tasks'))
          => Len(drivers') = count]_vars

\* C14: drivers never holds more than count sessions.
C14_NeverGrows == Len(drivers) <= count

\* The pool in service with a timer that fires more than once
OverlapNext ==
  \/ Next
  \/ \E s \in TickIds : Tick(s)

OverlapSpec == Init /\ [][OverlapNext]_vars

\* C15: the timer starts no sweep while a probe or a renewal of an earlier
\* sweep is unsettled.
C15_NoOverlap ==
  [][\A s \in AllSweepIds :
       Tick(s) => \A u \in InFlight : u.origin # "sweep"]_vars

\* C16: availableDrivers and busyDrivers share no session, both hold only
\* members of drivers, no array holds a session twice, and when no command is
\* in flight the two together hold exactly the members of drivers.
C16_Registry ==
  /\ Range(availableDrivers) \cap Range(busyDrivers) = {}
  /\ Range(availableDrivers) \cup Range(busyDrivers) \subseteq Range(drivers)
  /\ Distinct(drivers) = Len(drivers)
  /\ Distinct(availableDrivers) = Len(availableDrivers)
  /\ Distinct(busyDrivers) = Len(busyDrivers)
  /\ tasks = EmptyBag
       => Range(availableDrivers) \cup Range(busyDrivers) = Range(drivers)

\* C17: a sweep emits 'health' only when no probe and no renewal it started
\* is still in flight.
C17_HealthAfterAll ==
  [][\A s \in AllSweepIds :
       (sweepState[s] # "health" /\ sweepState'[s] = "health")
          => \A u \in BagToSet(tasks') : ~(u.origin = "sweep" /\ u.id = s)]_vars

\* C18: when the renewal started by a failed return probe has built the
\* replacement, then with a waiter queued the replacement is handed to a
\* waiter, is not in availableDrivers and is in busyDrivers; with no waiter it
\* is in availableDrivers and no request holds it.
C18_ReplacementOneOwner ==
  [][\A t \in InFlight :
       (t.origin = "return" /\ BuildOk(t))
          => IF getQueue # << >>
             THEN /\ \E r \in Range(getQueue) :
                       reqState'[r] = "held" /\ reqDriver'[r] = t.nd
                  /\ ~Contains(availableDrivers', t.nd)
                  /\ Contains(busyDrivers', t.nd)
             ELSE /\ Contains(availableDrivers', t.nd)
                  /\ \A r \in Requests : reqDriver'[r] # t.nd]_vars

\* C19: a failed probe of a sweep never renews (retires and quits) a session
\* that a request holds.
C19_SweepSparesHeld ==
  [][\A t \in InFlight :
       (t.origin = "sweep" /\ (ProbeFail(t) \/ ProbeCrashed(t)))
          => \A r \in Requests : ~(Held(r) /\ reqDriver[r] = t.d)]_vars

\* C20: a session that was not just built enters availableDrivers, or is handed
\* to a waiter as the session returned, only in the step in which the probe of
\* a returnDriver call of it succeeds; and while the probe of a returnDriver
\* call of a session is in flight the session is not in availableDrivers.
C20_VisibleOnlyTested ==
  [][\A d \in Sessions :
       /\ (/\ ~Contains(availableDrivers, d)
           /\ Contains(availableDrivers', d)
           /\ ~\E t \in InFlight : t.nd = d /\ BuildOk(t))
             => ProbeOk(Task("probe", "return", d, 0, 0))
       /\ (\E r \in Requests :
              /\ reqMode[r] = "queued"
              /\ reqMode'[r] = "handed"
              /\ reqDriver'[r] = d)
             => ProbeOk(Task("probe", "return", d, 0, 0))
       /\ Task("probe", "return", d, 0, 0) \in BagToSet(tasks')
             => ~Contains(availableDrivers', d)]_vars

\* The quit or the build of a renewal started by a failed probe
ProbeRenewal(t) == t.kind \in {"quit", "build"} /\ t.origin \in {"sweep", "return"}

\* C21: while the renewal started by a failed probe of s is under way, s is in
\* none of drivers, availableDrivers and busyDrivers, and no request is given
\* s.
C21_RetiredForGood ==
  [][\A t \in BagToSet(tasks') :
       ProbeRenewal(t)
          => /\ ~InPool(t.d)'
             /\ \A r \in Requests :
                  reqDriver'[r] = t.d => reqDriver[r] = t.d]_vars

\* The quit of a renewal (not of destroy)
RenewalQuit(t) == t.kind = "quit" /\ t.origin # "destroy"

\* the build that follows the quit t of a renewal
BuildAfter(t) == Task("build", t.origin, t.d, t.nd, t.id)

C23_BuildFailureSurfaced ==
  [][\A t \in InFlight :
       (ProbeRenewal(t) /\ BuildFail(t))
          => /\ emitted' \cap {"warn", "error"} # {}
             /\ healthInterval'
             /\ reqState' = reqState]_vars

\* A session that stops answering: its commands never settle
HungSession == 1
Answers(t) == t.kind = "build" \/ t.d # HungSession

\* A session command that answers settles, one way or the other
Settle(t) ==
  \/ ProbeOk(t) \/ ProbeFail(t) \/ ProbeCrashed(t)
  \/ QuitOk(t) \/ QuitFail(t)
  \/ BuildOk(t) \/ BuildFail(t)

\* The pool in service with one session hanging: every command of the other
\* sessions is answered in the end; the pool has no timer but the sweep's
HangNext ==
  \/ \E r \in Requests : GetDriver(r)
  \/ \E r \in Requests : ReturnDriver(r)
  \/ \E r \in Requests : RenewDriver(r)
  \/ \E s \in SweepIds : Tick(s)
  \/ \E t \in InFlight : Answers(t) /\ ProbeOk(t)
  \/ \E t \in InFlight : Answers(t) /\ ProbeFail(t)
  \/ \E t \in InFlight : Answers(t) /\ ProbeCrashed(t)
  \/ \E t \in InFlight : Answers(t) /\ QuitOk(t)
  \/ \E t \in InFlight : Answers(t) /\ QuitFail(t)
  \/ \E t \in InFlight : BuildOk(t)
  \/ \E t \in InFlight : BuildFail(t)

HangSpec ==
  /\ Init
  /\ [][HangNext]_vars
  /\ WF_vars(\E t \in InFlight : Answers(t) /\ Settle(t))

ReturnPending == \E t \in InFlight : t.origin = "return"
SweepPending == \E s \in AllSweepIds : sweepState[s] = "running"

\* C24: every returnDriver call and every sweep completes in the end, also
\* when a session never answers.
C24_ProgressDespiteHang ==
  /\ ReturnPending ~> ~ReturnPending
  /\ SweepPending ~> ~SweepPending

\* C25: when a destroy() finishes, with or without quits that failed,
\* drivers, availableDrivers, busyDrivers and getQueue are empty.
C25_TeardownDespiteFailure ==
  [][\A k \in DestroyIds :
       (destroyState[k] = "running"
          /\ destroyState'[k] \in {"resolved", "rejected"})
          => /\ drivers' = << >> /\ availableDrivers' = << >>
             /\ busyDrivers' = << >> /\ getQueue' = << >>]_vars

\* C26: when no command is in flight, a request waits in getQueue only if
\* availableDrivers is empty.
C26_NoStrandedWaiter ==
  (tasks = EmptyBag /\ getQueue # << >>) => availableDrivers = << >>

DestroyCalled == \E k \in DestroyIds : destroyState[k] # "idle"

\* C27: once destroy() has been called the timer starts no sweep, and once a
\* destroy() has completed drivers, availableDrivers and busyDrivers are empty
\* in every later state.
C27_TeardownFinal ==
  [][/\ \A s \in AllSweepIds : Tick(s) => ~DestroyCalled
     /\ DestroyCompleted
          => /\ drivers' = << >> /\ availableDrivers' = << >>
             /\ busyDrivers' = << >>]_vars

====
